---- MODULE Spec2Model ----
(***************************************************************************)
(* A model of the brainstorm agent core: the model registry lookup and the *)
(* provider adapter of src/brainstorm/ai.py, the registry of ModelInfo of  *)
(* src/brainstorm/models.py, and Message, Conversation and Agent.run of    *)
(* src/brainstorm/agents.py.                                               *)
(*                                                                         *)
(* Encoding of Python values.  A text is a sequence of one-character       *)
(* strings, so that + is \o and the empty string is << >>.  An optional    *)
(* value is a sequence of length at most one: None is << >> and a present  *)
(* value v is <<v>>.  A dict is a function whose DOMAIN is its key set.    *)
(* Identifiers (model names, provider names) are strings; the string       *)
(* NoneStr stands for an identifier argument that is None.                 *)
(***************************************************************************)
EXTENDS Integers, Sequences, FiniteSets, TLC

VARIABLES
    models,         \* the loaded model definition source (models.json)
    clients,        \* number of network clients created so far
    built,          \* the last provider construction: its call and outcome
    ai,             \* the AI object in use (None before one is constructed)
    reply,          \* the last complete(): upstream response and outcome
    wire,           \* the last request handed to the network client
    looked,         \* the last lookup of each get_model_info and its result
    streamed,       \* a provider stream read on its own: chunks and fragments
    agent,          \* the Agent: name, description, default_model
    conversations,  \* Agent.conversations: id -> Conversation
    runs            \* one record per Agent.run invocation: its frame

vars == <<models, clients, built, ai, reply, wire, looked, streamed, agent, conversations, runs>>

\* what Agent.run leaves alone
fixed == <<models, clients, built, ai, reply, looked, streamed, agent>>

(***************************************************************************)
(* Bounds of the model.                                                    *)
(***************************************************************************)
MaxClients == 2     \* provider constructions explored
MaxRuns == 2        \* Agent.run invocations explored
MaxConvs == 2       \* conversation identifiers the uuid source can hand out
MaxFrags == 2       \* fragments one upstream stream carries at most
MaxSilent == 1      \* consecutive chunks without text in an upstream stream

None == << >>
Some(v) == <<v>>
NoneStr == "<None>"
Truthy(s) == s # NoneStr /\ s # ""

(***************************************************************************)
(* ai.py: defaults and the model registry.                                 *)
(***************************************************************************)
DEFAULT_MODELS == [openai |-> "gpt-4o", openrouter |-> "openai/gpt-4o"]

DEFAULT_BASE_URLS == [openrouter |-> "https://openrouter.ai/api/v1"]

FALLBACK_MODEL == "meta-llama/llama-4-maverick:free"

\* A model entry of the definition source; the description records the
\* declaring provider so that entries of two providers differ.
Info(p, m) ==
    [category |-> IF p = "openrouter" THEN "general" ELSE "GENERAL",
     description |-> <<p, m>>]

\* A definition source: keys is the declaration order of the providers,
\* of maps each provider to its dict of models.
Source(order, ids) ==
    [keys |-> order,
     of |-> [p \in {order[i] : i \in DOMAIN order} |->
                [m \in ids[p] |-> Info(p, m)]]]

\* The definition sources explored (models.json is data, not code).
Registries ==
    { Source(<<"openai", "openrouter">>,
             [openai |-> {"gpt-4o"},
              openrouter |-> {"openai/gpt-4o", FALLBACK_MODEL}]),
      Source(<<"openai", "openrouter">>,
             [openai |-> {"gpt-4o"},
              openrouter |-> {"gpt-4o", "openai/gpt-4o"}]),
      Source(<<"openrouter", "openai">>,
             [openrouter |-> {"openai/gpt-4o"},
              openai |-> {}]) }

\* The first provider, in declaration order from position i, whose dict
\* holds model_name: the loop `for provider_models in models.values()`.
RECURSIVE ScanProviders(_, _, _)
ScanProviders(reg, model_name, i) ==
    IF i > Len(reg.keys) THEN None
    ELSE IF model_name \in DOMAIN reg.of[reg.keys[i]]
         THEN Some(reg.of[reg.keys[i]][model_name])
         ELSE ScanProviders(reg, model_name, i + 1)

\* get_model_info that scans all providers whatever the provider given.
get_model_info_unhinted(reg, model_name, provider) ==
    ScanProviders(reg, model_name, 1)

\* get_model_info(model_name, provider): None or the entry found.
get_model_info(reg, model_name, provider) ==
    IF /\ Truthy(provider)
       /\ provider \in DOMAIN reg.of
       /\ model_name \in DOMAIN reg.of[provider]
    THEN Some(reg.of[provider][model_name])
    ELSE ScanProviders(reg, model_name, 1)

(***************************************************************************)
(* models.py: the registry of ModelInfo objects.                           *)
(***************************************************************************)
\* dict.get(key, default)
Get(d, key, default) == IF key \in DOMAIN d THEN d[key] ELSE default

\* str.upper() on the category names of a definition source.
Upper(category) ==
    CASE category = "general" -> "GENERAL"
      [] category = "code" -> "CODE"
      [] category = "fast" -> "FAST"
      [] OTHER -> category

\* ModelInfo.__init__ as load_models calls it on the entry data.
ModelInfo(name, provider, data) ==
    [name |-> name, provider |-> provider,
     category |-> Upper(data.category),
     description |-> data.description,
     max_tokens |-> Get(data, "max_tokens", None),
     is_experimental |-> Get(data, "is_experimental", FALSE)]

\* models.load_models: provider -> model name -> ModelInfo.
PROVIDER_MODELS(reg) ==
    [p \in DOMAIN reg.of |->
        [m \in DOMAIN reg.of[p] |-> ModelInfo(m, p, reg.of[p][m])]]

\* dict.update: the keys of other replace those of d.
Update(d, other) ==
    [k \in DOMAIN d \cup DOMAIN other |->
        IF k \in DOMAIN other THEN other[k] ELSE d[k]]

\* ALL_MODELS: the loop of update() over PROVIDER_MODELS.values(), from
\* position i of the declaration order.
RECURSIVE AllModelsFrom(_, _, _)
AllModelsFrom(reg, i, all) ==
    IF i > Len(reg.keys) THEN all
    ELSE AllModelsFrom(reg, i + 1, Update(all, PROVIDER_MODELS(reg)[reg.keys[i]]))

ALL_MODELS(reg) == AllModelsFrom(reg, 1, << >>)

\* models.get_model_info(model_name): ALL_MODELS.get(model_name)
models_get_model_info(reg, model_name) ==
    IF model_name \in DOMAIN ALL_MODELS(reg)
    THEN Some(ALL_MODELS(reg)[model_name]) ELSE None

\* No lookup was made yet.
NoLookup == [ai |-> None, models |-> None]

(***************************************************************************)
(* Outcomes of a call: a returned value or a raised exception.             *)
(***************************************************************************)
Return(v) == [raised |-> None, value |-> Some(v)]
Raise(type, text) == [raised |-> Some([type |-> type, text |-> text]), value |-> None]
Raises(out) == out.raised # None

(***************************************************************************)
(* ai.py: construction of a provider adapter.  Every constructor returns   *)
(* its outcome and made, the number of network clients it created.         *)
(***************************************************************************)
\* ProviderConfig.__init__ without the validation of the model.
ProviderConfig_unvalidated(reg, model, base_url, extra_headers, name) ==
    Return([model |-> model, base_url |-> base_url,
            extra_headers |-> extra_headers, name |-> name])

\* ProviderConfig.__init__: stores the fields, then validates the model
\* (entries of the definition source are non-empty dicts, so `not
\* model_info` holds exactly when the lookup returned None).
ProviderConfig(reg, model, base_url, extra_headers, name) ==
    LET model_info == get_model_info(reg, model, NoneStr)
    IN  IF model_info = None
        THEN Raise("ValueError", <<"Unknown model: ", model>>)
        ELSE Return([model |-> model, base_url |-> base_url,
                     extra_headers |-> extra_headers, name |-> name])

\* create_openai_client: the network client of a configuration.
create_openai_client(config) == [base_url |-> config.base_url]

\* create_provider: creates the client, then the adapter's closures.
create_provider(config) ==
    [out |-> Return([config |-> config, client |-> create_openai_client(config)]),
     made |-> 1]

\* What a factory does with the outcome of ProviderConfig(...).
FromConfig(cfg) ==
    IF Raises(cfg) THEN [out |-> cfg, made |-> 0]
    ELSE create_provider(cfg.value[1])

create_openai_provider(reg, model) ==
    LET m == IF model = NoneStr THEN DEFAULT_MODELS["openai"] ELSE model
    IN  FromConfig(ProviderConfig(reg, m, NoneStr, << >>, "OpenAI Provider"))

create_openrouter_provider(reg, model) ==
    LET m == IF model = NoneStr THEN DEFAULT_MODELS["openrouter"] ELSE model
    IN  FromConfig(ProviderConfig(reg, m, DEFAULT_BASE_URLS["openrouter"],
                                  << >>, "OpenRouter Provider"))

\* DEFAULT_MODELS.get(provider)
DefaultModelOf(provider) ==
    IF provider \in DOMAIN DEFAULT_MODELS THEN DEFAULT_MODELS[provider] ELSE NoneStr

\* AI.__init__(provider, **kwargs): kwargs is a dict that may hold "model".
AI(reg, provider, kwargs) ==
    LET model == IF "model" \in DOMAIN kwargs THEN kwargs.model
                 ELSE DefaultModelOf(provider)
        made == IF provider = "openai" THEN create_openai_provider(reg, model)
                ELSE IF provider = "openrouter"
                     THEN create_openrouter_provider(reg, model)
                     ELSE [out |-> Raise("ValueError", <<"Unknown provider: ", provider>>),
                           made |-> 0]
    IN  IF Raises(made.out) THEN made
        ELSE [out |-> Return([provider |-> made.out.value[1],
                              model_name |-> model,
                              model_info |-> get_model_info(reg, model, provider)]),
              made |-> made.made]

(***************************************************************************)
(* ai.py: complete().                                                      *)
(***************************************************************************)
\* handle_response with the test of the choices before that of the error.
handle_response_choices_first(response) ==
    IF response.choices = << >>
    THEN Raise("Exception", <<"No response choices available">>)
    ELSE IF "error" \in DOMAIN response /\ response.error # << >>
         THEN Raise("Exception",
                    <<"AI Provider Error: ",
                      Get(response.error, "message", "Unknown error occurred"),
                      " (Code: ", Get(response.error, "code", "unknown"), ")">>)
         ELSE Return(response.choices[1])

\* handle_response: a response is a dict-like object that may have an
\* "error" attribute (a dict: None and {} are both the empty dict, both
\* falsy) and has "choices", the list of the choices' message contents.
handle_response(response) ==
    IF "error" \in DOMAIN response /\ response.error # << >>
    THEN Raise("Exception",
               <<"AI Provider Error: ",
                 Get(response.error, "message", "Unknown error occurred"),
                 " (Code: ", Get(response.error, "code", "unknown"), ")">>)
    ELSE IF response.choices = << >>
         THEN Raise("Exception", <<"No response choices available">>)
         ELSE Return(response.choices[1])

\* The exception of a failed network call (raised by the client, passed on
\* unchanged).
TransportError == Raise("APIConnectionError", <<"Connection error.">>)

\* get_response with the model of the configuration for every request.
get_response_config_model(provider, messages, kwargs, net) ==
    [request |-> [model |-> provider.config.model, messages |-> messages,
                  extra_headers |-> provider.config.extra_headers,
                  stream |-> FALSE],
     out |-> IF net = None THEN TransportError ELSE handle_response(net[1])]

\* create_provider.get_response(messages, **kwargs): net is what the
\* network call does: None when it raises, else <<response>>.  Returns the
\* request handed to the client and the outcome.
get_response(provider, messages, kwargs, net) ==
    LET model == Get(kwargs, "model", provider.config.model)
    IN  [request |-> [model |-> model, messages |-> messages,
                      extra_headers |-> provider.config.extra_headers,
                      stream |-> FALSE],
         out |-> IF net = None THEN TransportError ELSE handle_response(net[1])]

\* AI.get_response(messages, **kwargs) without a stream option.
AI_get_response(self, messages, kwargs, net) ==
    get_response(self.provider, messages, kwargs, net)

(***************************************************************************)
(* ai.py: completeStreaming().                                             *)
(***************************************************************************)
\* The loop body with truth tests (`if delta.content:`) on every content.
ChunkText_truthy(chunk) ==
    IF "choices" \in DOMAIN chunk /\ chunk.choices # << >>
    THEN LET choice == chunk.choices[1]
             text == IF "delta" \in DOMAIN choice
                     THEN Get(choice.delta, "content", None)
                     ELSE IF "message" \in DOMAIN choice
                          THEN Get(choice.message, "content", None)
                          ELSE IF "text" \in DOMAIN choice THEN Some(choice.text)
                               ELSE None
         IN  IF text = None \/ text = Some(<< >>) THEN None ELSE Some(text[1])
    ELSE None

\* The loop body of handle_streaming_response: what one chunk yields, None
\* or <<fragment>>.  A chunk is a dict-like object: "choices" may be
\* missing or empty; its first choice may have "delta", "message" or
\* "text"; a delta or message may have "content", which may be None.
ChunkText(chunk) ==
    IF "choices" \in DOMAIN chunk /\ chunk.choices # << >>
    THEN LET choice == chunk.choices[1]
         IN  IF "delta" \in DOMAIN choice
             THEN IF "content" \in DOMAIN choice.delta /\ choice.delta.content # None
                  THEN Some(choice.delta.content[1]) ELSE None
             ELSE IF "message" \in DOMAIN choice
                  THEN IF "content" \in DOMAIN choice.message
                          /\ choice.message.content # None
                       THEN Some(choice.message.content[1]) ELSE None
                  ELSE IF "text" \in DOMAIN choice
                       THEN IF choice.text # << >> THEN Some(choice.text) ELSE None
                       ELSE None
    ELSE None

\* handle_streaming_response over a finite list of chunks: the fragments it
\* yields, in order.
RECURSIVE handle_streaming_response(_)
handle_streaming_response(response) ==
    IF response = << >> THEN << >>
    ELSE ChunkText(Head(response)) \o handle_streaming_response(Tail(response))

\* create_provider.get_streaming_response(messages, **kwargs): the request
\* handed to the client ("stream" is popped from kwargs and forced True).
get_streaming_response(provider, messages, kwargs) ==
    [model |-> Get(kwargs, "model", provider.config.model),
     messages |-> messages,
     extra_headers |-> provider.config.extra_headers,
     stream |-> TRUE]

\* AI.get_streaming_response(messages, **kwargs): sets kwargs["stream"].
AI_get_streaming_response(self, messages, kwargs) ==
    get_streaming_response(self.provider, messages,
                           [k \in DOMAIN kwargs \cup {"stream"} |->
                               IF k = "stream" THEN TRUE ELSE kwargs[k]])

(***************************************************************************)
(* agents.py: Message and Conversation.                                    *)
(***************************************************************************)
\* A text content item {"type": "text", "text": text}.
TextPart(text) == [type |-> "text", text |-> text]

\* Whether a content item has text that is not empty.
HasText(part) == part.text # << >>

\* Message.__init__ keeping only the content items that have text.
Message_skip_blank(role, content, by) ==
    [role |-> role, content |-> SelectSeq(content, HasText), by |-> by]

\* Message.__init__ for a content that is already a list of content items
\* (the only form Agent.run passes).  by is no attribute of the object: it
\* records which run created the Message (0: none), the object's identity.
Message(role, content, by) == [role |-> role, content |-> content, by |-> by]

\* Conversation.__init__
Conversation(id, messages) == [id |-> id, messages |-> messages]

\* Conversation.add_message with insert(0, message) for append(message).
add_message_front(conversation, message) ==
    [conversation EXCEPT !.messages = <<message>> \o @]

\* Conversation.add_message
add_message(conversation, message) ==
    [conversation EXCEPT !.messages = Append(@, message)]

\* Conversation.format_for_ai walking the messages from the last to the first.
format_for_ai_reversed(conversation) ==
    [i \in 1..Len(conversation.messages) |->
        [role |-> conversation.messages[Len(conversation.messages) + 1 - i].role,
         content |-> conversation.messages[Len(conversation.messages) + 1 - i].content]]

\* Conversation.format_for_ai
format_for_ai(conversation) ==
    [i \in 1..Len(conversation.messages) |->
        [role |-> conversation.messages[i].role,
         content |-> conversation.messages[i].content]]

(***************************************************************************)
(* agents.py: Agent.                                                       *)
(***************************************************************************)
\* Agent.__init__: configured is the default_model argument as given.
Agent(name, description, default_model) ==
    [name |-> name, description |-> description,
     configured |-> default_model,
     default_model |-> IF Truthy(default_model) THEN default_model
                       ELSE FALLBACK_MODEL]

\* Agent.system_prompt
system_prompt(self) ==
    <<"You are ">> \o self.name \o <<". Your goal is to be ">> \o self.description

\* The identifiers uuid4 can still return: it never repeats one.
FreshIds == (1..MaxConvs) \ DOMAIN conversations

\* A new mapping that holds only the new Conversation.
Registered_alone(id) ==
    [c \in {id} |-> Conversation(id, << >>)]

\* The mapping self.conversations with a new empty Conversation under id.
Registered(id) ==
    [c \in DOMAIN conversations \cup {id} |->
        IF c = id THEN Conversation(id, << >>) ELSE conversations[c]]

\* The frame of a run that was not called yet.  model_arg and given are
\* the model and conversation_id arguments as passed, calls counts the
\* requests the run handed to the provider, upstream lists the fragments
\* the provider's stream produced for it and delivered those the run
\* handed to the handler or to the consumer of its generator.
IdleRun ==
    [pc |-> "idle", mode |-> "none", model_arg |-> NoneStr, model |-> NoneStr,
     given |-> 0, conversation_id |-> 0, messages_for_ai |-> << >>,
     full_response |-> << >>, calls |-> 0, upstream |-> << >>,
     delivered |-> << >>, out |-> None]

\* The frame f once its run (or its generator) has ended in state pc with
\* outcome out: the locals are gone, what the caller saw remains.
Ended(f, pc, out) ==
    [IdleRun EXCEPT !.pc = pc, !.mode = f.mode, !.out = Some(out),
                    !.calls = f.calls, !.upstream = f.upstream,
                    !.delivered = f.delivered]

\* The mode of a call of run: its dispatch on stream and stream_handler.
ModeOf(stream, stream_handler) ==
    IF stream THEN IF stream_handler THEN "handler" ELSE "lazy" ELSE "sync"

\* Agent.run, lines 140-153 and the dispatch on stream and stream_handler,
\* once the conversation mapping convs holds conversation_id.
RunBody(r, user_input, given, model_arg, model, mode, convs, conversation_id) ==
    LET conversation == add_message(convs[conversation_id],
                                    Message("user", <<TextPart(user_input)>>, r))
        system_msg == [role |-> "system",
                       content |-> <<TextPart(system_prompt(agent))>>]
        messages_for_ai == <<system_msg>> \o format_for_ai(conversation)
    IN  /\ conversations' = [convs EXCEPT ![conversation_id] = conversation]
        /\ runs' = [runs EXCEPT ![r] =
               [IdleRun EXCEPT
                  !.pc = IF mode = "sync" THEN "sync_call"
                         ELSE IF mode = "handler" THEN "handler_open"
                         ELSE "gen_created",
                  !.mode = mode, !.model_arg = model_arg, !.model = model,
                  !.given = given, !.conversation_id = conversation_id,
                  !.messages_for_ai = messages_for_ai]]

\* self.conversations[conversation_id] with a mapping that also registers
\* the identifier when it is missing (the behaviour of a defaultdict).
Lookup_or_register(convs, conversation_id) ==
    Some([c \in DOMAIN convs \cup {conversation_id} |->
             IF c \in DOMAIN convs THEN convs[c]
             ELSE [id |-> c, messages |-> << >>]])

\* self.conversations[conversation_id] (line 140): None for the KeyError of
\* an identifier that is not registered, else the mapping, left as it is.
Lookup(convs, conversation_id) ==
    IF conversation_id \in DOMAIN convs THEN Some(convs) ELSE None

\* Agent.run up to the provider call: model selection, creation or lookup
\* of the conversation (KeyError when the identifier is not registered),
\* the user message, the request messages.  conversation_id 0 is None.
RunCall(r, user_input, conversation_id, model_arg, stream, stream_handler) ==
    /\ runs[r].pc = "idle"
    /\ \A q \in 1..(r - 1) : runs[q].pc # "idle"
    /\ LET model == IF ~Truthy(model_arg) THEN agent.default_model ELSE model_arg
           mode == ModeOf(stream, stream_handler)
           found == Lookup(conversations, conversation_id)
       IN  IF conversation_id = 0
           THEN \E id \in FreshIds :
                   RunBody(r, user_input, 0, model_arg, model, mode, Registered(id), id)
           ELSE IF found = None
                THEN /\ runs' = [runs EXCEPT ![r] =
                            Ended([IdleRun EXCEPT !.mode = mode], "raised",
                                  Raise("KeyError", <<conversation_id>>))]
                     /\ UNCHANGED conversations
                ELSE RunBody(r, user_input, conversation_id, model_arg, model, mode,
                             found[1], conversation_id)
    /\ UNCHANGED <<fixed, wire>>

\* The assistant Message added only when the run's user message is still
\* the last entry of the conversation.
WithReply_if_last(r, conversation_id, text) ==
    LET messages == conversations[conversation_id].messages
    IN  IF messages # << >> /\ messages[Len(messages)].by = r
        THEN [conversations EXCEPT ![conversation_id] =
                 add_message(@, Message("assistant", <<TextPart(text)>>, r))]
        ELSE conversations

\* The conversation mapping after run r added the assistant Message with
\* text to conversation_id.
WithReply(r, conversation_id, text) ==
    [conversations EXCEPT ![conversation_id] =
        add_message(@, Message("assistant", <<TextPart(text)>>, r))]

\* Agent.run, synchronous branch (lines 198-210): the provider call, then
\* the assistant message and the return, or the exception passed on.
SyncComplete(r, net) ==
    /\ runs[r].pc = "sync_call"
    /\ LET f == runs[r]
           res == AI_get_response(ai[1], f.messages_for_ai, [model |-> f.model], net)
           g == [f EXCEPT !.calls = @ + 1]
       IN  /\ wire' = Some(res.request)
           /\ IF Raises(res.out)
              THEN /\ runs' = [runs EXCEPT ![r] = Ended(g, "raised", res.out)]
                   /\ UNCHANGED conversations
              ELSE /\ conversations' = WithReply(r, f.conversation_id, res.out.value[1])
                   /\ runs' = [runs EXCEPT ![r] =
                          Ended(g, "returned", Return(res.out.value[1]))]
    /\ UNCHANGED fixed

(***************************************************************************)
(* The upstream chunk stream of a streaming request.                       *)
(***************************************************************************)
\* The chunk objects with text t, one per shape handle_streaming_response
\* yields a fragment for.
Speaking(t) ==
    {[choices |-> <<[delta |-> [content |-> Some(t)]]>>],
     [choices |-> <<[message |-> [content |-> Some(t)]]>>]}
    \cup (IF t = << >> THEN {} ELSE {[choices |-> <<[text |-> t]>>]})

\* The chunk objects handle_streaming_response yields nothing for.
Silent ==
    {[id |-> "chunk"], [choices |-> << >>], [choices |-> <<[index |-> 0]>>],
     [choices |-> <<[delta |-> [role |-> "assistant"]]>>],
     [choices |-> <<[delta |-> [content |-> None]]>>],
     [choices |-> <<[message |-> [content |-> None]]>>],
     [choices |-> <<[text |-> << >>]>>]}

SeqsUpTo(S, n) == UNION {[1..k -> S] : k \in 0..n}

\* The text of the k-th fragment of a stream: fragments differ by position.
FragmentAt(k) == <<<<"a">>, <<"b">>, <<"c">>, <<"d">>>>[k]

\* What the upstream delivers after k fragments and before the next: at
\* most MaxSilent chunks without text (from the set silent), then a chunk
\* with text ("more"), the end of the stream ("end") or a failure of the
\* connection ("error").
Bursts(k, silent) ==
    {[chunks |-> s \o t, ending |-> IF t = << >> THEN e ELSE "more"] :
        s \in SeqsUpTo(silent, MaxSilent),
        t \in {<< >>} \cup (IF k < MaxFrags
                            THEN {<<c>> : c \in Speaking(FragmentAt(k + 1))}
                            ELSE {}),
        e \in {"end", "error"}}

\* The loop body with the fragment put in front of the buffer.
OnChunk_prepend(f, chunk) ==
    [f EXCEPT !.full_response = chunk \o @, !.delivered = Append(@, chunk)]

\* The loop body without the hand-over of the fragment.
OnChunk_unheard(f, chunk) ==
    [f EXCEPT !.full_response = @ \o chunk]

\* The body of the loop over response_chunks (lines 166-167, 186-187): the
\* fragment joins the buffer and goes to the handler or the consumer.
OnChunk(f, chunk) ==
    [f EXCEPT !.full_response = @ \o chunk, !.delivered = Append(@, chunk)]

\* The fragments the provider's stream yields while it reads the chunks.
Yielded(f, chunks) ==
    [f EXCEPT !.upstream = @ \o handle_streaming_response(chunks)]

\* The turn of the loop with the assistant message added in a finally
\* clause: a failure of the stream records what was accumulated.
StreamStep_keeps_partial(r, f, burst, more, done) ==
    LET g == Yielded(f, burst.chunks)
    IN  IF burst.ending = "more"
        THEN /\ runs' = [runs EXCEPT ![r] =
                    [OnChunk(g, g.upstream[Len(g.upstream)]) EXCEPT !.pc = more]]
             /\ UNCHANGED conversations
        ELSE /\ conversations' = WithReply(r, g.conversation_id, g.full_response)
             /\ runs' = [runs EXCEPT ![r] =
                    IF burst.ending = "end"
                    THEN Ended(g, done, Return(g.full_response))
                    ELSE Ended(g, "raised", TransportError)]

\* One turn of the loop over response_chunks in the frame f of run r, for
\* what the upstream delivers next: a fragment is accumulated and handed
\* on (pc becomes more), or the stream ends and the assistant message is
\* added (the run ends in done), or the failure is passed on.
StreamStep(r, f, burst, more, done) ==
    LET g == Yielded(f, burst.chunks)
    IN  IF burst.ending = "more"
        THEN /\ runs' = [runs EXCEPT ![r] =
                    [OnChunk(g, g.upstream[Len(g.upstream)]) EXCEPT !.pc = more]]
             /\ UNCHANGED conversations
        ELSE IF burst.ending = "end"
             THEN /\ conversations' = WithReply(r, g.conversation_id, g.full_response)
                  /\ runs' = [runs EXCEPT ![r] =
                         Ended(g, done, Return(g.full_response))]
             ELSE /\ runs' = [runs EXCEPT ![r] = Ended(g, "raised", TransportError)]
                  /\ UNCHANGED conversations

\* The streaming request with the messages formatted anew from the
\* conversation as it is when the request is made.
StreamRequest_fresh(f) ==
    AI_get_streaming_response(ai[1],
        <<[role |-> "system", content |-> <<TextPart(system_prompt(agent))>>]>>
            \o format_for_ai(conversations[f.conversation_id]),
        [model |-> f.model])

\* The streaming request of frame f (lines 159-163, 180-184).
StreamRequest(f) ==
    AI_get_streaming_response(ai[1], f.messages_for_ai, [model |-> f.model])

\* The frame f once its request was handed to the provider.
Opened(f) == [f EXCEPT !.calls = @ + 1]

\* Agent.run, handler branch, lines 159-163: the streaming request; ok is
\* whether the network call succeeds.
HandlerOpen(r, ok) ==
    /\ runs[r].pc = "handler_open"
    /\ wire' = Some(StreamRequest(runs[r]))
    /\ runs' = [runs EXCEPT ![r] =
           IF ok THEN [Opened(runs[r]) EXCEPT !.pc = "handler_stream"]
           ELSE Ended(Opened(runs[r]), "raised", TransportError)]
    /\ UNCHANGED <<fixed, conversations>>

\* Agent.run, handler branch, lines 164-174: one turn of the loop, or the
\* assistant message and the return once the stream ends.
HandlerStep(r, burst) ==
    /\ runs[r].pc = "handler_stream"
    /\ StreamStep(r, runs[r], burst, "handler_stream", "returned")
    /\ UNCHANGED <<fixed, wire>>

\* next() on the generator collect_and_yield (lines 178-194).  The first
\* next() runs the body from its start: it makes the streaming request.
GenNext(r, ok, burst) ==
    /\ runs[r].pc \in {"gen_created", "gen_suspended"}
    /\ IF runs[r].pc = "gen_created"
       THEN /\ wire' = Some(StreamRequest(runs[r]))
            /\ IF ok
               THEN StreamStep(r, Opened(runs[r]), burst, "gen_suspended", "gen_done")
               ELSE /\ burst.chunks = << >> /\ burst.ending = "error"
                    /\ runs' = [runs EXCEPT ![r] =
                           Ended(Opened(runs[r]), "raised", TransportError)]
                    /\ UNCHANGED conversations
       ELSE /\ ok
            /\ StreamStep(r, runs[r], burst, "gen_suspended", "gen_done")
            /\ UNCHANGED wire
    /\ UNCHANGED fixed

\* close() on a generator whose body adds the assistant message in a
\* finally clause: what was accumulated is recorded.
GenClose_keeps_partial(r) ==
    /\ runs[r].pc \in {"gen_created", "gen_suspended"}
    /\ conversations' = WithReply(r, runs[r].conversation_id, runs[r].full_response)
    /\ runs' = [runs EXCEPT ![r] =
           Ended(runs[r], "gen_closed", Raise("GeneratorExit", << >>))]
    /\ UNCHANGED <<fixed, wire>>

\* The consumer drops the generator before it is exhausted: close() raises
\* GeneratorExit at the yield (or the body never starts); nothing after
\* the loop runs.
GenClose(r) ==
    /\ runs[r].pc \in {"gen_created", "gen_suspended"}
    /\ runs' = [runs EXCEPT ![r] =
           Ended(runs[r], "gen_closed", Raise("GeneratorExit", << >>))]
    /\ UNCHANGED <<fixed, wire, conversations>>

\* next() on a generator that has finished: StopIteration, and no code of
\* collect_and_yield runs.
GenNextFinished(r) ==
    /\ runs[r].pc \in {"gen_done", "gen_closed"}
    /\ UNCHANGED vars

\* Agent.init_conversation
init_conversation ==
    /\ \E id \in FreshIds : conversations' = Registered(id)
    /\ UNCHANGED <<fixed, wire, runs>>

(***************************************************************************)
(* Inputs explored.                                                        *)
(***************************************************************************)
RunIds == 1..MaxRuns

UserInputs == {<< >>, <<"q">>}

\* model arguments of Agent.run
RunModels == {NoneStr, "", "x/custom"}

\* error envelopes: every dict over the keys message and code
ErrorDicts ==
    {<< >>, [message |-> "rate limited"], [code |-> "429"],
     [message |-> "rate limited", code |-> "429"]}

ChoiceLists == {<< >>, <<<<"a">>>>, <<<<"a">>, <<"b">>>>}

\* upstream responses of a synchronous request
Responses ==
    {[choices |-> cs] : cs \in ChoiceLists}
    \cup {[error |-> e, choices |-> cs] : e \in ErrorDicts, cs \in ChoiceLists}

\* what the network call of a synchronous request does
Nets == {None} \cup {Some(resp) : resp \in Responses}

Providers == {"openai", "openrouter", "other"}

\* model arguments of the provider constructors
ModelArgs == {NoneStr, "", "gpt-4o", "openai/gpt-4o", "x/custom"}

Kwargs == {<< >>} \cup {[model |-> m] : m \in ModelArgs}

(***************************************************************************)
(* The agent in use: single-threaded callers of one Agent.                 *)
(***************************************************************************)
\* Frames in the middle of a call of run: on one thread nothing else runs
\* until the call returns or raises.
Busy == {"sync_call", "handler_open", "handler_stream"}

Quiet(r) == \A q \in RunIds \ {r} : runs[q].pc \notin Busy

\* The record of a construction: the call, the clients before, the outcome.
Construction(call, provider, model, before, made) ==
    [call |-> call, provider |-> provider, model |-> model, before |-> before,
     out |-> made.out, made |-> made.made]

Init ==
    /\ models = Source(<<"openai", "openrouter">>,
                       [openai |-> {"gpt-4o"},
                        openrouter |-> {"openai/gpt-4o", FALLBACK_MODEL}])
    /\ LET made == AI(models, "openrouter", << >>)
       IN  /\ ai = made.out.value
           /\ clients = made.made
           /\ built = Some(Construction("AI", "openrouter", NoneStr, 0, made))
    /\ reply = None
    /\ wire = None
    /\ looked = NoLookup
    /\ streamed = None
    /\ agent \in {Agent(<<"Nova">>, <<"concise and factual">>, d) :
                      d \in {NoneStr, "my/default"}}
    /\ conversations = << >>
    /\ runs = [r \in RunIds |-> IdleRun]

\* The steps of the runs in R, for user inputs, model arguments, upstream
\* responses and chunks without text drawn from the given sets.
Turn(R, inputs, run_models, nets, silent) ==
    \/ Quiet(0) /\ init_conversation
    \/ \E r \in R, user_input \in inputs, conversation_id \in 0..MaxConvs,
          model \in run_models, stream \in BOOLEAN, stream_handler \in BOOLEAN :
          Quiet(r) /\ RunCall(r, user_input, conversation_id, model, stream, stream_handler)
    \/ \E r \in R, net \in nets : SyncComplete(r, net)
    \/ \E r \in R, ok \in BOOLEAN : HandlerOpen(r, ok)
    \/ \E r \in R : \E burst \in Bursts(Len(runs[r].upstream), silent) :
          HandlerStep(r, burst)
    \/ \E r \in R, ok \in BOOLEAN : \E burst \in Bursts(Len(runs[r].upstream), silent) :
          Quiet(r) /\ GenNext(r, ok, burst)
    \/ \E r \in R : Quiet(r) /\ GenClose(r)
    \/ \E r \in R : Quiet(r) /\ GenNextFinished(r)

\* Any sequence of calls of run, init_conversation and next() by one thread:
\* one upstream response of each kind, two shapes of chunks without text.
Next ==
    Turn(RunIds, UserInputs, {NoneStr, "x/custom"},
         {None, Some([choices |-> << >>]), Some([choices |-> <<<<"a">>>>]),
          Some([error |-> [message |-> "rate limited", code |-> "429"],
                choices |-> <<<<"a">>>>])},
         {[choices |-> << >>], [choices |-> <<[delta |-> [content |-> None]]>>]})

Spec == Init /\ [][Next]_vars

\* One call of run with every input, upstream response and chunk shape.
NextOne == Turn({1}, UserInputs, RunModels, Nets, Silent)

SpecOne == Init /\ [][NextOne]_vars

(***************************************************************************)
(* The agent called from several threads: a call of run can be preempted   *)
(* between any two of its statements, so the steps of the calls interleave *)
(* freely; each list append and each read of the list is one step.         *)
(***************************************************************************)
\* Agent.run, lines 131-146, on a thread of its own: model selection,
\* creation or lookup of the conversation, the user message.
RunEnter(r, user_input, conversation_id, model_arg, stream, stream_handler) ==
    /\ runs[r].pc = "idle"
    /\ \A q \in 1..(r - 1) : runs[q].pc # "idle"
    /\ LET model == IF ~Truthy(model_arg) THEN agent.default_model ELSE model_arg
           mode == ModeOf(stream, stream_handler)
           found == Lookup(conversations, conversation_id)
           entered == [IdleRun EXCEPT !.pc = "entered", !.mode = mode,
                                      !.model_arg = model_arg, !.model = model,
                                      !.given = conversation_id]
           user == Message("user", <<TextPart(user_input)>>, r)
       IN  IF conversation_id = 0
           THEN \E id \in FreshIds :
                   /\ conversations' = [Registered(id) EXCEPT ![id] = add_message(@, user)]
                   /\ runs' = [runs EXCEPT ![r] = [entered EXCEPT !.conversation_id = id]]
           ELSE IF found = None
                THEN /\ runs' = [runs EXCEPT ![r] =
                            Ended([IdleRun EXCEPT !.mode = mode], "raised",
                                  Raise("KeyError", <<conversation_id>>))]
                     /\ UNCHANGED conversations
                ELSE /\ conversations' = [found[1] EXCEPT ![conversation_id] =
                                             add_message(@, user)]
                     /\ runs' = [runs EXCEPT ![r] =
                            [entered EXCEPT !.conversation_id = conversation_id]]
    /\ UNCHANGED <<fixed, wire>>

\* Agent.run, lines 148-153 and the dispatch, on a thread of its own: the
\* request messages are read from the conversation as it is by then.
RunFormat(r) ==
    /\ runs[r].pc = "entered"
    /\ LET f == runs[r]
           system_msg == [role |-> "system",
                          content |-> <<TextPart(system_prompt(agent))>>]
       IN  runs' = [runs EXCEPT ![r] =
               [f EXCEPT !.pc = IF f.mode = "sync" THEN "sync_call"
                                ELSE IF f.mode = "handler" THEN "handler_open"
                                ELSE "gen_created",
                         !.messages_for_ai =
                             <<system_msg>> \o format_for_ai(conversations[f.conversation_id])]]
    /\ UNCHANGED <<fixed, wire, conversations>>

\* The two calls of run that are made concurrently.
Threads == {1, 2}

\* Calls of run by threads of their own, all on registered or unregistered
\* identifiers, with one user input and one upstream reply.
NextThreads ==
    \/ init_conversation
    \/ \E r \in Threads, conversation_id \in 1..MaxConvs,
          stream \in BOOLEAN, stream_handler \in BOOLEAN :
          RunEnter(r, <<"q">>, conversation_id, NoneStr, stream, stream_handler)
    \/ \E r \in Threads : RunFormat(r)
    \/ \E r \in Threads, net \in {None, Some([choices |-> <<<<"a">>>>])} :
          SyncComplete(r, net)
    \/ \E r \in Threads, ok \in BOOLEAN : HandlerOpen(r, ok)
    \/ \E r \in Threads : \E burst \in Bursts(Len(runs[r].upstream), {}) :
          HandlerStep(r, burst)
    \/ \E r \in Threads, ok \in BOOLEAN :
          \E burst \in Bursts(Len(runs[r].upstream), {}) : GenNext(r, ok, burst)
    \/ \E r \in Threads : GenClose(r)

SpecThreads == Init /\ [][NextThreads]_vars

(***************************************************************************)
(* The provider adapter on its own: constructions and complete().          *)
(***************************************************************************)
\* AI(provider, **kwargs)
NewAI(provider, kwargs) ==
    /\ clients < MaxClients
    /\ LET made == AI(models, provider, kwargs)
       IN  /\ built' = Some(Construction("AI", provider, kwargs, clients, made))
           /\ clients' = clients + made.made
           /\ ai' = IF Raises(made.out) THEN ai ELSE made.out.value
    /\ UNCHANGED <<models, reply, wire, looked, streamed, agent, conversations, runs>>

\* create_openai_provider(model=model), create_openrouter_provider(model=model)
NewProvider(provider, model) ==
    /\ clients < MaxClients
    /\ LET made == IF provider = "openai" THEN create_openai_provider(models, model)
                   ELSE create_openrouter_provider(models, model)
       IN  /\ built' = Some(Construction("create_provider", provider,
                                         [model |-> model], clients, made))
           /\ clients' = clients + made.made
    /\ UNCHANGED <<models, ai, reply, wire, looked, streamed, agent, conversations, runs>>

\* ai.get_response(messages, **kwargs) for what the network call does
Complete(kwargs, net) ==
    /\ ai # None
    /\ LET res == AI_get_response(ai[1], <<[role |-> "user", content |-> <<"hi">>]>>,
                                  kwargs, net)
       IN  /\ reply' = Some([response |-> net, out |-> res.out])
           /\ wire' = Some(res.request)
    /\ UNCHANGED <<models, clients, built, ai, looked, streamed, agent, conversations, runs>>

InitProvider ==
    /\ models \in Registries
    /\ clients = 0
    /\ built = None
    /\ ai = None
    /\ reply = None
    /\ wire = None
    /\ looked = NoLookup
    /\ streamed = None
    /\ agent = Agent(<<"Nova">>, <<"concise and factual">>, NoneStr)
    /\ conversations = << >>
    /\ runs = [r \in RunIds |-> IdleRun]

NextProvider ==
    \/ \E provider \in Providers, kwargs \in Kwargs : NewAI(provider, kwargs)
    \/ \E provider \in {"openai", "openrouter"}, model \in ModelArgs :
          NewProvider(provider, model)
    \/ \E kwargs \in {<< >>, [model |-> "x/custom"]}, net \in Nets :
          Complete(kwargs, net)

SpecProvider == InitProvider /\ [][NextProvider]_vars

(***************************************************************************)
(* The model registry on its own: the two lookups.                         *)
(***************************************************************************)
\* ai.get_model_info(model_name, provider)
LookupAI(model_name, provider) ==
    /\ looked' = [looked EXCEPT !.ai =
           Some([model_name |-> model_name, provider |-> provider,
                 out |-> get_model_info(models, model_name, provider)])]
    /\ UNCHANGED <<models, clients, built, ai, reply, wire, streamed, agent, conversations, runs>>

\* models.get_model_info(model_name)
LookupModels(model_name) ==
    /\ looked' = [looked EXCEPT !.models =
           Some([model_name |-> model_name,
                 out |-> models_get_model_info(models, model_name)])]
    /\ UNCHANGED <<models, clients, built, ai, reply, wire, streamed, agent, conversations, runs>>

\* model names and provider hints looked up
LookupNames == {"", "gpt-4o", "openai/gpt-4o", FALLBACK_MODEL, "x/custom"}

LookupHints == {NoneStr, "", "openai", "openrouter", "other"}

NextLookup ==
    \/ \E model_name \in LookupNames, provider \in LookupHints :
          LookupAI(model_name, provider)
    \/ \E model_name \in LookupNames : LookupModels(model_name)

SpecLookup == InitProvider /\ [][NextLookup]_vars

(***************************************************************************)
(* The provider's stream on its own: handle_streaming_response as the      *)
(* generator it is, read one next() at a time.                             *)
(***************************************************************************)
MaxChunks == 3

\* The chunks of the upstream streams read: those of Silent and Speaking
\* (the text "b" as a delta only), a delta without content beside a message
\* with content, and a second choice with text behind a first one without.
StreamChunks ==
    Silent \cup Speaking(<<"a">>) \cup Speaking(<< >>)
    \cup {[choices |-> <<[delta |-> [content |-> Some(<<"b">>)]]>>]}
    \cup {[choices |-> <<[delta |-> [content |-> None],
                          message |-> [content |-> Some(<<"a">>)]]>>],
          [choices |-> <<[index |-> 0], [text |-> <<"b">>]>>]}

\* The position of the first chunk from position i on that yields a
\* fragment, Len(chunks) + 1 when none does.
RECURSIVE NextYield(_, _)
NextYield(chunks, i) ==
    IF i > Len(chunks) \/ ChunkText(chunks[i]) # None THEN i
    ELSE NextYield(chunks, i + 1)

\* get_streaming_response: the generator over the upstream chunks is
\* created; nothing is read yet.
StreamOpen(chunks) ==
    /\ streamed = None
    /\ streamed' = Some([chunks |-> chunks, read |-> 0, fragments |-> << >>,
                         done |-> FALSE])
    /\ UNCHANGED <<models, clients, built, ai, reply, wire, looked, agent, conversations, runs>>

\* next() on the generator: the loop runs up to its next yield, or to the
\* end of the upstream.
StreamNext ==
    /\ streamed # None
    /\ ~streamed[1].done
    /\ LET st == streamed[1]
           n == NextYield(st.chunks, st.read + 1)
           to == IF n > Len(st.chunks) THEN Len(st.chunks) ELSE n
       IN  streamed' = Some([st EXCEPT
               !.read = to,
               !.fragments = @ \o handle_streaming_response(
                                     SubSeq(st.chunks, st.read + 1, to)),
               !.done = n > Len(st.chunks)])
    /\ UNCHANGED <<models, clients, built, ai, reply, wire, looked, agent, conversations, runs>>

NextStream ==
    \/ streamed = None /\ \E chunks \in SeqsUpTo(StreamChunks, MaxChunks) :
                               StreamOpen(chunks)
    \/ StreamNext

SpecStream == InitProvider /\ [][NextStream]_vars

(***************************************************************************)
(* Claims about the provider adapter.                                      *)
(***************************************************************************)
\* The model identifier a construction validates: the model argument, or
\* the provider's default when it is None or not given.
ModelOf(b) ==
    LET m == Get(b.model, "model", NoneStr)
    IN  IF m = NoneStr THEN DEFAULT_MODELS[b.provider] ELSE m

\* Whether some provider of the definition source declares m.
InRegistry(m) == \E p \in DOMAIN models.of : m \in DOMAIN models.of[p]

\* C8: constructing a provider adapter (create_openai_provider,
\* create_openrouter_provider, AI) with a model identifier that no provider
\* of the registry declares raises the unknown-model error and creates no
\* network client; with a declared identifier it succeeds (and creates
\* the adapter's one client).
C8_ConstructionValidates ==
    (built # None /\ built[1].provider \in {"openai", "openrouter"}) =>
        LET b == built[1]
        IN  IF InRegistry(ModelOf(b))
            THEN ~Raises(b.out) /\ b.made = 1 /\ clients = b.before + 1
            ELSE /\ b.out = Raise("ValueError", <<"Unknown model: ", ModelOf(b)>>)
                 /\ b.made = 0
                 /\ clients = b.before

\* C8 witness: after a client exists, a construction with an undeclared
\* model has failed, by each way of constructing.
C8_Witness ==
    /\ built # None
    /\ built[1].call = "AI"
    /\ built[1].provider = "openrouter"
    /\ ~InRegistry(ModelOf(built[1]))
    /\ Raises(built[1].out)
    /\ clients = 1

\* Whether an upstream response carries an error envelope: an error
\* object that is not empty.
HasEnvelope(resp) == "error" \in DOMAIN resp /\ resp.error # << >>

\* C9: complete() fails with the provider error carrying the envelope's
\* message and code unchanged when the response carries an error envelope
\* (whatever its choices), else fails with the empty-response error when
\* it has no choices, else returns the text of the first choice.
C9_CompleteClassifies ==
    (reply # None /\ reply[1].response # None) =>
        LET resp == reply[1].response[1]
            out == reply[1].out
        IN  IF HasEnvelope(resp)
            THEN /\ Raises(out)
                 /\ out.raised[1].text[1] = "AI Provider Error: "
                 /\ "message" \in DOMAIN resp.error =>
                        out.raised[1].text[2] = resp.error.message
                 /\ "code" \in DOMAIN resp.error =>
                        out.raised[1].text[4] = resp.error.code
            ELSE IF resp.choices = << >>
                 THEN out = Raise("Exception", <<"No response choices available">>)
                 ELSE out = Return(resp.choices[1])

\* C9 witness: an error envelope with message and code on a response that
\* also has choices has been classified.
C9_Witness ==
    /\ reply # None
    /\ reply[1].response # None
    /\ HasEnvelope(reply[1].response[1])
    /\ DOMAIN reply[1].response[1].error = {"message", "code"}
    /\ reply[1].response[1].choices # << >>
    /\ Raises(reply[1].out)

(***************************************************************************)
(* Claims about Agent.run.                                                 *)
(***************************************************************************)
\* The positions <<c, i>> of the stored messages.
Entries ==
    UNION {{<<c, i>> : i \in 1..Len(conversations[c].messages)} :
              c \in DOMAIN conversations}

\* The positions of the messages with role that run r created.
MessagesBy(r, role) ==
    {e \in Entries : /\ conversations[e[1]].messages[e[2]].by = r
                     /\ conversations[e[1]].messages[e[2]].role = role}

\* The roles of the messages of conversation c, in stored order.
Roles(c) ==
    [i \in 1..Len(conversations[c].messages) |-> conversations[c].messages[i].role]

\* The concatenation of a sequence of fragments.
RECURSIVE Concat(_)
Concat(fragments) ==
    IF fragments = << >> THEN << >>
    ELSE fragments[1] \o Concat(Tail(fragments))

\* The content of the message that carries text.
TextContent(text) == <<TextPart(text)>>

\* Every run has at most one assistant message, and it stands after the
\* run's user message in the same conversation.
AnswersFollowQuestions ==
    \A r \in RunIds :
        /\ Cardinality(MessagesBy(r, "user")) <= 1
        /\ Cardinality(MessagesBy(r, "assistant")) <= 1
        /\ \A a \in MessagesBy(r, "assistant") :
              \E u \in MessagesBy(r, "user") : u[1] = a[1] /\ u[2] < a[2]

\* A step leaves every conversation as it was or adds one message at its end.
AppendOnly ==
    \A c \in DOMAIN conversations :
        /\ c \in DOMAIN conversations'
        /\ LET old == conversations[c].messages
               new == conversations'[c].messages
           IN  \/ new = old
               \/ Len(new) = Len(old) + 1 /\ SubSeq(new, 1, Len(old)) = old

\* C1 as stated: every conversation lists user and assistant messages in
\* strict alternation, starting with a user message.
C1_StrictAlternation ==
    \A c \in DOMAIN conversations :
        \A i \in 1..Len(conversations[c].messages) :
            Roles(c)[i] = IF i % 2 = 1 THEN "user" ELSE "assistant"

\* C1, amended: for any sequence of runs in any mix of modes, with or
\* without failures, a conversation is only ever appended to (so it lists
\* its messages in the order they were added), every message has role user
\* or assistant, and each run has at most one user and one assistant
\* message, the assistant message after the user message; the roles need
\* not alternate.
C1_AppendOrder ==
    /\ [](/\ AnswersFollowQuestions
          /\ \A e \in Entries :
                conversations[e[1]].messages[e[2]].role \in {"user", "assistant"})
    /\ [][AppendOnly]_vars

\* C1 witness: a conversation holds two user messages followed by two
\* assistant messages (two streams were pending on it and drained later).
C1_Witness ==
    \E c \in DOMAIN conversations :
        Roles(c) = <<"user", "user", "assistant", "assistant">>

\* C2 as stated: after a synchronous run whose provider call failed, the
\* conversation is as it was before the run was called: it holds no
\* message of that run.
C2_FailedSyncRunLeavesNoTrace ==
    \A r \in RunIds :
        (runs[r].mode = "sync" /\ runs[r].pc = "raised" /\ runs[r].calls = 1) =>
            MessagesBy(r, "user") = {} /\ MessagesBy(r, "assistant") = {}

\* C3: a lazy stream hands its consumer the upstream fragments in upstream
\* order; while it is not drained the conversation holds no assistant
\* message of the run; once drained it holds exactly one, whose text is
\* the concatenation of the fragments, and it keeps holding exactly that.
C3_LazyDrained ==
    \A r \in RunIds :
        runs[r].mode = "lazy" =>
            /\ runs[r].delivered = runs[r].upstream
            /\ runs[r].pc \in {"gen_created", "gen_suspended"} =>
                   MessagesBy(r, "assistant") = {}
            /\ runs[r].pc = "gen_done" =>
                   /\ Cardinality(MessagesBy(r, "assistant")) = 1
                   /\ \A a \in MessagesBy(r, "assistant") :
                          conversations[a[1]].messages[a[2]].content =
                              TextContent(Concat(runs[r].upstream))

\* C3 witness: a lazy stream of two fragments was drained.
C3_Witness ==
    /\ runs[1].pc = "gen_done"
    /\ Len(runs[1].upstream) = 2
    /\ runs[1].delivered = runs[1].upstream

\* C4: while a lazy stream is not drained, and once its consumer has
\* dropped it (after any number of fragments, zero included), the
\* conversation holds no assistant message of that run, and the run's
\* user message is its last entry.
C4_Abandoned ==
    \A r \in RunIds :
        runs[r].pc \in {"gen_created", "gen_suspended", "gen_closed"} =>
            /\ MessagesBy(r, "assistant") = {}
            /\ \E u \in MessagesBy(r, "user") :
                  u[2] = Len(conversations[u[1]].messages)

\* C4 witness: a lazy stream was dropped after its consumer took a fragment.
C4_Witness ==
    /\ runs[1].pc = "gen_closed"
    /\ Len(runs[1].delivered) = 1

\* C5: a streaming run (handler or lazy) whose upstream failed, on the
\* request or after any number of fragments, has no assistant message in
\* the conversation, and the failure is what its caller gets.
C5_StreamFailure ==
    \A r \in RunIds :
        (runs[r].mode \in {"handler", "lazy"} /\ runs[r].pc = "raised"
            /\ runs[r].calls = 1) =>
            /\ MessagesBy(r, "assistant") = {}
            /\ runs[r].out = Some(TransportError)

\* C5 witness: a handler stream failed after one fragment was delivered.
C5_Witness ==
    /\ runs[1].mode = "handler"
    /\ runs[1].pc = "raised"
    /\ Len(runs[1].delivered) = 1

\* C6: in handler mode the handler has received exactly the fragments the
\* upstream produced, in order; no assistant message of the run exists
\* while fragments are still coming; after the return there is exactly one,
\* with the concatenation of the fragments, which is also what run returns.
C6_HandlerMode ==
    \A r \in RunIds :
        runs[r].mode = "handler" =>
            /\ runs[r].delivered = runs[r].upstream
            /\ runs[r].pc \in {"handler_open", "handler_stream"} =>
                   MessagesBy(r, "assistant") = {}
            /\ runs[r].pc = "returned" =>
                   /\ runs[r].out = Some(Return(Concat(runs[r].upstream)))
                   /\ Cardinality(MessagesBy(r, "assistant")) = 1
                   /\ \A a \in MessagesBy(r, "assistant") :
                          conversations[a[1]].messages[a[2]].content =
                              TextContent(Concat(runs[r].upstream))

\* C6 witness: a handler run of two fragments returned.
C6_Witness ==
    /\ runs[1].mode = "handler"
    /\ runs[1].pc = "returned"
    /\ Len(runs[1].delivered) = 2

\* The step is the call of run by r.
Called(r) == runs[r].pc = "idle" /\ runs'[r].pc # "idle"

\* C7: a call of run with a conversation identifier that is not registered
\* raises the not-found error, makes no provider call and leaves the
\* mapping of conversations as it was; a call that goes on was given no
\* identifier or a registered one, and for a registered one it adds
\* exactly one message, the user message, at the end of that conversation
\* and changes nothing else.
C7_UnknownConversation ==
    [][\A r \in RunIds :
          Called(r) =>
              IF runs'[r].pc = "raised"
              THEN /\ \E id \in (1..MaxConvs) \ DOMAIN conversations :
                         runs'[r].out = Some(Raise("KeyError", <<id>>))
                   /\ runs'[r].calls = 0
                   /\ wire' = wire
                   /\ conversations' = conversations
              ELSE LET id == runs'[r].given
                   IN  /\ id \in DOMAIN conversations \cup {0}
                       /\ id # 0 =>
                             /\ DOMAIN conversations' = DOMAIN conversations
                             /\ \A c \in DOMAIN conversations \ {id} :
                                   conversations'[c] = conversations[c]
                             /\ Len(conversations'[id].messages) =
                                    Len(conversations[id].messages) + 1
                             /\ SubSeq(conversations'[id].messages, 1,
                                       Len(conversations[id].messages)) =
                                    conversations[id].messages
                             /\ MessagesBy(r, "user")' =
                                    {<<id, Len(conversations'[id].messages)>>}
      ]_vars

\* C7 witness: a run with an unregistered identifier has raised while a
\* conversation is registered, and nothing was sent.
C7_Witness ==
    /\ runs[1].pc = "raised"
    /\ runs[1].out # None
    /\ runs[1].out[1].raised # None
    /\ runs[1].out[1].raised[1].type = "KeyError"
    /\ DOMAIN conversations # {}
    /\ wire = None

\* The model run selects: the explicit argument when it is given (not None
\* and not empty), else the agent's configured default, else the fallback.
Selected(model_arg) ==
    IF Truthy(model_arg) THEN model_arg
    ELSE IF Truthy(agent.configured) THEN agent.configured
    ELSE FALLBACK_MODEL

\* C10: the model of every request a run hands to the provider is the
\* explicit model argument when given, else the agent's configured
\* default, else the built-in fallback: whatever the model the adapter
\* was constructed with and whether or not the registry declares it.
C10_ModelSent ==
    [][\A r \in RunIds :
          runs'[r].calls = runs[r].calls + 1 =>
              /\ wire' # None
              /\ wire'[1].model = Selected(runs[r].model_arg)
      ]_vars

\* C10 witness: a synchronous request went out with the agent's configured
\* default, which the registry does not declare and which is not the
\* adapter's model.
C10_Witness ==
    /\ wire # None
    /\ ~wire[1].stream
    /\ wire[1].model = agent.configured
    /\ ~InRegistry(wire[1].model)
    /\ wire[1].model # ai[1].provider.config.model
    /\ runs[1].pc = "returned"

\* The step hands a request of run r to the provider.
Sends(r) == runs'[r].calls = runs[r].calls + 1

\* The stored messages of conversation c up to position n, as role and
\* content pairs.
History(c, n) ==
    [j \in 1..n |-> [role |-> conversations[c].messages[j].role,
                     content |-> conversations[c].messages[j].content]]

\* The system message of the agent's persona.
PersonaMessage ==
    [role |-> "system",
     content |-> <<[type |-> "text",
                    text |-> <<"You are ">> \o agent.name
                             \o <<". Your goal is to be ">> \o agent.description]>>]

\* C11: every request a run hands to the provider is the system message
\* "You are {name}. Your goal is to be {description}" followed by the
\* stored conversation, in stored order, up to and ending with the run's
\* user message; no other message of the request has role system,
\* however many turns precede.
C11_RequestShape ==
    [][\A r \in RunIds :
          Sends(r) =>
              /\ wire' # None
              /\ \E u \in MessagesBy(r, "user") :
                    wire'[1].messages = <<PersonaMessage>> \o History(u[1], u[2])
              /\ \A k \in 2..Len(wire'[1].messages) :
                    wire'[1].messages[k].role # "system"
      ]_vars

\* C11 witness: the request of a second turn went out: the system message,
\* then a user message, its reply and the new user message.
C11_Witness ==
    /\ wire # None
    /\ Len(wire[1].messages) = 4
    /\ [k \in 1..4 |-> wire[1].messages[k].role] =
           <<"system", "user", "assistant", "user">>
    /\ wire[1].messages[1] = PersonaMessage

(***************************************************************************)
(* Claims about the model registry.                                        *)
(***************************************************************************)
\* The members of the enumeration ModelCategory.
CategoryNames == {"GENERAL", "CODE", "VISION", "LONG_CONTEXT", "FAST", "EXPERIMENTAL"}

\* The positions, in declaration order, of the providers that declare m.
Declaring(m) ==
    {i \in 1..Len(models.keys) : m \in DOMAIN models.of[models.keys[i]]}

\* The first and the last provider, in declaration order, that declares m.
FirstDeclaring(m) ==
    models.keys[CHOOSE i \in Declaring(m) : \A j \in Declaring(m) : i <= j]

LastDeclaring(m) ==
    models.keys[CHOOSE i \in Declaring(m) : \A j \in Declaring(m) : i >= j]

\* The provider hint of lookup l is given, present in the source and
\* declares the model looked up.
HintApplies(l) ==
    /\ Truthy(l.provider)
    /\ l.provider \in DOMAIN models.of
    /\ l.model_name \in DOMAIN models.of[l.provider]

\* What ai.get_model_info returned for lookup l is the entry of the hinted
\* provider when the hint applies, else the first match in declaration
\* order, else not found.
HintedLookup(l) ==
    l.out = IF HintApplies(l) THEN Some(models.of[l.provider][l.model_name])
            ELSE IF Declaring(l.model_name) = {} THEN None
            ELSE Some(models.of[FirstDeclaring(l.model_name)][l.model_name])

\* What models.get_model_info returned for lookup l is the ModelInfo, named
\* after the model, of provider p's entry when some provider declares the
\* model, else not found.
FlatLookup(l, p) ==
    IF Declaring(l.model_name) = {} THEN l.out = None
    ELSE /\ l.out # None
         /\ l.out[1].name = l.model_name
         /\ l.out[1].provider = p
         /\ l.out[1].description = models.of[p][l.model_name].description
         /\ l.out[1].category \in CategoryNames

\* C12 as stated: a lookup with a hint that applies returns the hinted
\* provider's own entry; every other lookup, by either get_model_info,
\* returns the first match in declaration order, or not found.
C12_FirstMatch ==
    /\ looked.ai # None => HintedLookup(looked.ai[1])
    /\ looked.models # None =>
           FlatLookup(looked.models[1], FirstDeclaring(looked.models[1].model_name))

\* C12, amended: ai.get_model_info returns the hinted provider's own entry
\* when the hint applies (also when another provider declares the same
\* model), else the first match in declaration order, else not found;
\* models.get_model_info, which takes no hint, returns the ModelInfo (its
\* name the model looked up, its category a member of the enumeration) of
\* the last provider in declaration order that declares it, else not found.
C12_Lookups ==
    /\ looked.ai # None => HintedLookup(looked.ai[1])
    /\ looked.models # None =>
           FlatLookup(looked.models[1], LastDeclaring(looked.models[1].model_name))

\* C12 witness: a model that two providers declare was looked up with the
\* second provider as hint, and in the flat registry.
C12_Witness ==
    /\ looked.ai # None /\ looked.models # None
    /\ Cardinality(Declaring(looked.ai[1].model_name)) = 2
    /\ HintApplies(looked.ai[1])
    /\ looked.ai[1].provider # FirstDeclaring(looked.ai[1].model_name)
    /\ looked.models[1].model_name = looked.ai[1].model_name
    /\ looked.models[1].out # None

(***************************************************************************)
(* Claims about the provider's stream.                                     *)
(***************************************************************************)
\* The first choice of a chunk, as a sequence of at most one choice.
FirstChoice(chunk) ==
    IF "choices" \in DOMAIN chunk /\ chunk.choices # << >>
    THEN <<chunk.choices[1]>> ELSE << >>

\* The text a choice carries: the content of its delta, else of its
\* message, else its text; None when it has none of them or the content
\* is None.
Carried(choice) ==
    CASE "delta" \in DOMAIN choice -> Get(choice.delta, "content", None)
      [] "delta" \notin DOMAIN choice /\ "message" \in DOMAIN choice ->
             Get(choice.message, "content", None)
      [] OTHER -> IF "text" \in DOMAIN choice THEN Some(choice.text) ELSE None

\* The text the first choice of a chunk carries (None: no choice or none).
CarriedBy(chunk) ==
    IF FirstChoice(chunk) = << >> THEN None ELSE Carried(FirstChoice(chunk)[1])

\* A chunk carries text when the text of its first choice is not empty.
CarriesText(chunk) == CarriedBy(chunk) # None /\ CarriedBy(chunk) # Some(<< >>)

\* The code's test: any content of a delta or message that is not None,
\* and a text that is not empty.
YieldsFragment(chunk) ==
    /\ CarriedBy(chunk) # None
    /\ \/ "delta" \in DOMAIN FirstChoice(chunk)[1]
       \/ "message" \in DOMAIN FirstChoice(chunk)[1]
       \/ CarriedBy(chunk) # Some(<< >>)

\* The texts carried by the chunks of a sequence, in its order.
TextsOf(chunks) == [i \in 1..Len(chunks) |-> CarriedBy(chunks[i])[1]]

\* The chunks of the stream read so far.
ChunksRead == SubSeq(streamed[1].chunks, 1, streamed[1].read)

\* The stream never reads past the upstream, ends only after the last
\* chunk, and is otherwise suspended at a chunk that yielded a fragment.
ReadsInStep ==
    streamed # None =>
        LET st == streamed[1]
        IN  /\ st.read <= Len(st.chunks)
            /\ st.done => st.read = Len(st.chunks)
            /\ (~st.done /\ st.read > 0) =>
                   /\ st.fragments # << >>
                   /\ CarriedBy(st.chunks[st.read]) =
                          Some(st.fragments[Len(st.fragments)])

\* C13 as stated: the fragments are the texts of the chunks read that
\* carry text, in arrival order, one per chunk, and none for a chunk
\* without choices or without text; the stream ends exactly at the end of
\* the upstream.
C13_FragmentPerTextChunk ==
    /\ ReadsInStep
    /\ streamed # None =>
           streamed[1].fragments =
               TextsOf(SelectSeq(ChunksRead, CarriesText))

\* C13, amended: the fragments are, in arrival order and unchanged, one
\* per chunk read whose first choice has a delta with a content that is
\* not None, or no delta and a message with a content that is not None
\* (an empty content yields an empty fragment), or neither and a text
\* that is not empty; every other chunk yields nothing; the stream ends
\* exactly at the end of the upstream.
C13_Fragments ==
    /\ ReadsInStep
    /\ streamed # None =>
           streamed[1].fragments =
               TextsOf(SelectSeq(ChunksRead, YieldsFragment))

\* C13 witness: a stream of three chunks was read to its end: two
\* fragments with different texts and a chunk that yields nothing.
C13_Witness ==
    /\ streamed # None
    /\ streamed[1].done
    /\ Len(streamed[1].chunks) = 3
    /\ streamed[1].fragments = <<<<"a">>, <<"b">>>>

(***************************************************************************)
(* Claims about concurrent calls of run.                                   *)
(***************************************************************************)
\* C14: when calls of run are made by threads of their own on one
\* conversation identifier, the core does not serialize them, yet in every
\* interleaving every message is appended exactly once: a run that got
\* past the lookup has exactly one user message, a run that returned (or
\* whose stream was drained) exactly one assistant message, no other run
\* has one, and every step appends at most one message to a conversation.
C14_AppendedOnce ==
    /\ [](\A r \in RunIds :
             /\ Cardinality(MessagesBy(r, "user")) =
                    IF runs[r].pc = "idle" \/ (runs[r].calls = 0 /\ runs[r].pc = "raised")
                    THEN 0 ELSE 1
             /\ Cardinality(MessagesBy(r, "assistant")) =
                    IF runs[r].pc \in {"returned", "gen_done"} THEN 1 ELSE 0)
    /\ [][AppendOnly]_vars

\* C14 witness: two synchronous calls on one conversation interleaved:
\* both returned and the conversation is user, user, assistant, assistant.
C14_Witness ==
    /\ \A r \in {1, 2} : runs[r].mode = "sync" /\ runs[r].pc = "returned"
    /\ \E c \in DOMAIN conversations :
          /\ Roles(c) = <<"user", "user", "assistant", "assistant">>
          /\ {conversations[c].messages[i].by : i \in 1..4} = {1, 2}

(***************************************************************************)
(* Claims about the stored messages.                                       *)
(***************************************************************************)
\* C15: every stored message has role user or assistant and a content of
\* exactly one part, a text part, also when the user input is the empty
\* string and when a streamed reply had no fragment at all.
C15_OneTextPart ==
    \A e \in Entries :
        LET message == conversations[e[1]].messages[e[2]]
        IN  /\ message.role \in {"user", "assistant"}
            /\ Len(message.content) = 1
            /\ DOMAIN message.content[1] = {"type", "text"}
            /\ message.content[1].type = "text"

\* C15 witness: an empty user input was answered by a stream without
\* fragments: both messages are stored with an empty text.
C15_Witness ==
    /\ runs[1].mode \in {"handler", "lazy"}
    /\ runs[1].pc \in {"returned", "gen_done"}
    /\ runs[1].upstream = << >>
    /\ \E c \in DOMAIN conversations :
          /\ Roles(c) = <<"user", "assistant">>
          /\ \A i \in 1..2 : conversations[c].messages[i].content[1].text = << >>

(***************************************************************************)
(* Claims about the lazily consumed stream.                                *)
(***************************************************************************)
\* C16: a call of run in lazy mode appends the user message and builds the
\* request messages (the system message and the conversation as it then
\* is) without calling the provider; the messages are kept as built while
\* the stream is not consumed, whatever other runs append meanwhile; the
\* provider is called at the first consumption step, with exactly them.
C16_LazySnapshot ==
    [][\A r \in RunIds :
          /\ (Called(r) /\ runs'[r].pc = "gen_created") =>
                 /\ wire' = wire
                 /\ runs'[r].calls = 0
                 /\ MessagesBy(r, "user")' =
                        {<<runs'[r].conversation_id,
                           Len(conversations'[runs'[r].conversation_id].messages)>>}
                 /\ runs'[r].messages_for_ai =
                        <<PersonaMessage>> \o
                        [j \in 1..Len(conversations'[runs'[r].conversation_id].messages) |->
                            [role |-> conversations'[runs'[r].conversation_id].messages[j].role,
                             content |-> conversations'[runs'[r].conversation_id].messages[j].content]]
          /\ (runs[r].pc = "gen_created" /\ runs'[r].pc = "gen_created") =>
                 /\ runs'[r].messages_for_ai = runs[r].messages_for_ai
                 /\ runs'[r].calls = 0
          /\ (runs[r].mode = "lazy" /\ Sends(r)) =>
                 /\ runs[r].pc = "gen_created"
                 /\ wire' # None
                 /\ wire'[1].messages = runs[r].messages_for_ai
      ]_vars

\* C16 witness: a lazy stream made its request at its first consumption
\* step after another run had added messages to its conversation: the
\* request on the wire is the run's snapshot, shorter than the history.
C16_Witness ==
    \E r \in RunIds :
        /\ runs[r].pc = "gen_suspended"
        /\ wire # None
        /\ wire[1].messages = runs[r].messages_for_ai
        /\ Len(wire[1].messages) = 2
        /\ Len(conversations[runs[r].conversation_id].messages) = 3

(***************************************************************************)
(* Claims about what a call leaves alone.                                  *)
(***************************************************************************)
\* The conversations a step registers or changes.
Changed ==
    {c \in DOMAIN conversations' :
        c \notin DOMAIN conversations \/ conversations'[c] # conversations[c]}

\* The step registers exactly one conversation, under an identifier that
\* was not in use.
RegistersOne(c) ==
    /\ c \notin DOMAIN conversations
    /\ DOMAIN conversations' = DOMAIN conversations \cup {c}

\* C17: no step removes a conversation and every step registers or changes
\* at most one; init_conversation and a call of run without identifier
\* register exactly one new identifier; every other step of a run touches
\* at most the conversation of that run, only by appending to it, and
\* registers none.
C17_FrameEffect ==
    [][/\ DOMAIN conversations \subseteq DOMAIN conversations'
       /\ Cardinality(Changed) <= 1
       /\ AppendOnly
       /\ (runs' = runs /\ conversations' # conversations) =>
              \E c \in Changed :
                  RegistersOne(c) /\ conversations'[c].messages = << >>
       /\ \A r \in RunIds :
              runs'[r] # runs[r] =>
                  IF Called(r) /\ runs'[r].pc # "raised" /\ runs'[r].given = 0
                  THEN /\ RegistersOne(runs'[r].conversation_id)
                       /\ Changed = {runs'[r].conversation_id}
                       /\ Len(conversations'[runs'[r].conversation_id].messages) = 1
                  ELSE /\ DOMAIN conversations' = DOMAIN conversations
                       /\ Changed \subseteq
                              {IF Called(r) THEN runs'[r].given
                               ELSE runs[r].conversation_id}
      ]_vars

\* C17 witness: two conversations are registered, one by a call of run
\* without identifier that was then continued, one holding another run's
\* message.
C17_Witness ==
    /\ Cardinality(DOMAIN conversations) = 2
    /\ \A c \in DOMAIN conversations : conversations[c].messages # << >>
    /\ \E c \in DOMAIN conversations : Len(conversations[c].messages) >= 2

====
